---- MODULE Spec2Model ----
(***************************************************************************)
(* GcpDatastoreService (src/utils/random-token.ts): the connection handle, *)
(* the retry-after-renewal wrapper of save / get / query, the passthrough  *)
(* delete, getSingle, saveFull, invokeQuery and the paginated query.       *)
(*                                                                         *)
(* JavaScript runs a handler without interruption up to its next await, so *)
(* each action below is one such uninterrupted stretch of a call.  The     *)
(* remote store and the credentials provider are the environment: what an  *)
(* attempt of a remote call does (succeeds, throws synchronously, returns  *)
(* a promise that rejects) is chosen by \E in the actions.                 *)
(***************************************************************************)
EXTENDS Integers, Sequences, FiniteSets, TLC

\* ------------------------------------------------------------- bounds
\* Datastore objects constructed in one run (the constructor's included).
MaxHandles == 3
\* Record ids of one kind are 1 .. MaxRecords.
MaxRecords == 3
\* The keys that save, get, getSingle and delete are called with have ids
\* 1 .. MaxKeyIds.
MaxKeyIds == 2
\* Page limits of the paginated queries are up to MaxLimit, offsets up to
\* MaxOffset.
MaxLimit == 2
MaxOffset == 1
\* nextPage() is called at most MaxNextCalls times in one walk.
MaxNextCalls == 3
\* Datastore objects constructed in a run of paginated queries.
MaxPagedHandles == 2

\* ------------------------------------------------------------- values
Callers == {"c1", "c2"}
Kinds == {"User"}
Ids == 1 .. MaxRecords
DataVals == {"d1", "d2"}
Errors == {"e1", "e2"}
Projects == {"p1", "p2"}

\* JavaScript's undefined, for string-valued things.
Undefined == "undefined"
CredentialError == "credentials"

Keys == [kind : Kinds, id : Ids]
CallKeys == {k \in Keys : k.id <= MaxKeyIds}

\* Outcomes of one invocation of a remote operation: it resolves, it throws
\* before returning a promise, or it returns a promise that rejects.
Outcomes == {"ok", "throw", "reject"}

VARIABLES
    datastoreInstance,  \* this.datastoreInstance: index into handles
    handles,            \* every Datastore object constructed so far, in order
    store,              \* the remote store: key -> data, or Undefined
    calls,              \* per caller: the call in progress
    saved,              \* history: key -> data of the last save that returned
    walk                \* the caller of a paginated query: the page it holds

vars == <<datastoreInstance, handles, store, calls, saved, walk>>

\* ------------------------------------------------- key, entity, handle
\* new Datastore({projectId: credentials.project_id, credentials})
Datastore(credentials) ==
    [projectId |-> credentials.project_id, credentials |-> credentials]

\* GcpCredentials.getCredentials() when it returns
Credentials == [project_id : Projects]

\* Mutant: the renewal patches the live Datastore object and keeps the reference.
renewConnectionInPlace(instance, hs, credentials) ==
    IF hs = <<>>
    THEN [instance |-> 1, handles |-> <<Datastore(credentials)>>]
    ELSE [instance |-> instance,
          handles |-> [hs EXCEPT ![instance] = Datastore(credentials)]]

\* renewConnection with the credentials in hand: a new object, a new reference
renewConnection(instance, hs, credentials) ==
    [instance |-> Len(hs) + 1, handles |-> Append(hs, Datastore(credentials))]

\* this.datastoreInstance.key([kind, id])
createKey(kind, id) ==
    LET path == <<kind, id>> IN [kind |-> path[1], id |-> path[2]]

\* Mutant: the entity is assembled without its data.
buildEntityNoData(key, data, excludeFromIndexes) ==
    [key |-> key, data |-> Undefined, excludeFromIndexes |-> excludeFromIndexes]

buildEntity(key, data, excludeFromIndexes) ==
    [key |-> key, data |-> data, excludeFromIndexes |-> excludeFromIndexes]

NoExclude == <<>>

\* ------------------------------------------------------- remote store
\* A cursor is an opaque non-empty token; -1 stands for undefined, 0 for the
\* empty string, and the store's token for position p is p + 1.
NoCursor == 0 - 1
CursorOf(pos) == pos + 1
PosOf(cursor) == cursor - 1

\* JavaScript's undefined, for numbers.
NoNum == 0 - 1

NoInfo == [present |-> FALSE, moreResults |-> Undefined, endCursor |-> NoCursor]

\* Responses of the remote store, one shape for all operations:
\* get resolves to [entity], runQuery to [entities, info].
Response(defined, hasItems, items, info) ==
    [defined |-> defined, hasItems |-> hasItems, items |-> items, info |-> info]

NoResponse == Response(FALSE, FALSE, <<>>, NoInfo)

\* datastore.save(entity), resolved: the record is written.
RemoteSave(st, entity) == [st EXCEPT ![entity.key] = entity.data]

\* datastore.delete(key), resolved.
RemoteDelete(st, key) == [st EXCEPT ![key] = Undefined]

\* datastore.get(key), resolved: the record, or for a key with no record one
\* of the shapes an empty answer can take.
MissShapes == {"empty", "hole", "undefined"}
RemoteGet(st, key, shape) ==
    IF st[key] # Undefined THEN Response(TRUE, TRUE, <<st[key]>>, NoInfo)
    ELSE CASE shape = "empty" -> Response(TRUE, TRUE, <<>>, NoInfo)
           [] shape = "hole" -> Response(TRUE, TRUE, <<Undefined>>, NoInfo)
           [] OTHER -> NoResponse

\* ------------------------------------------------------ native query
\* The native query object: its kind and the clauses applied to it, in order.
Clause(op, num, prop, oper, val) ==
    [op |-> op, num |-> num, prop |-> prop, oper |-> oper, val |-> val]

createQuery(kind) == [kind |-> kind, clauses |-> <<>>]
Apply(gq, clause) == [gq EXCEPT !.clauses = Append(@, clause)]

\* The processors a caller hands to query(): none, the identity of getAll,
\* and one that adds a limit.
Processors == {"undefined", "identity", "limit1"}
RunProcessor(p, gq) ==
    CASE p = "limit1" -> Apply(gq, Clause("limit", 1, "", "", ""))
      [] OTHER -> gq

Max(S) == CHOOSE x \in S : \A y \in S : y <= x
Min2(a, b) == IF a <= b THEN a ELSE b

\* The number of the last clause named op, or dflt when there is none.
ClauseNum(gq, op, dflt) ==
    LET idx == {i \in DOMAIN gq.clauses : gq.clauses[i].op = op} IN
    IF idx = {} THEN dflt ELSE gq.clauses[Max(idx)].num

Satisfies(data, gq) ==
    \A i \in DOMAIN gq.clauses :
        gq.clauses[i].op = "filter" =>
            CASE gq.clauses[i].oper = "=" -> data = gq.clauses[i].val
              [] OTHER -> data # gq.clauses[i].val

RECURSIVE Ascending(_)
Ascending(S) ==
    IF S = {} THEN <<>>
    ELSE LET m == Max(S) IN Append(Ascending(S \ {m}), m)

\* The ids of the records the query matches, in key order.
Matching(st, gq) ==
    Ascending({i \in Ids :
        LET k == [kind |-> gq.kind, id |-> i] IN
        st[k] # Undefined /\ Satisfies(st[k], gq)})

HasClause(gq, op) == \E i \in DOMAIN gq.clauses : gq.clauses[i].op = op

Reverse(seq) == [i \in 1 .. Len(seq) |-> seq[Len(seq) + 1 - i]]

\* The matching records, all, as the query arranges them: one record for
\* each value of the data under a groupBy clause, in descending key order
\* under a descending order clause.  A select clause leaves the records,
\* identified by their ids, the same.
ArrangedFrom(all, st, gq) ==
    LET data(i) == st[[kind |-> gq.kind, id |-> all[i]]]
        firsts == {i \in DOMAIN all : \A j \in 1 .. (i - 1) : data(j) # data(i)}
        grouped == IF HasClause(gq, "groupBy")
                   THEN Ascending({all[i] : i \in firsts}) ELSE all
        descending ==
            \E i \in DOMAIN gq.clauses :
                /\ gq.clauses[i].op = "order"
                /\ gq.clauses[i].val = "desc"
    IN  IF descending THEN Reverse(grouped) ELSE grouped

Arranged(st, gq) == ArrangedFrom(Matching(st, gq), st, gq)

\* The records returned out of the arranged ones, all: from the start
\* cursor, after the offset, up to the limit; last is the position the
\* answer ends at.
SelectedFrom(all, start, offset, limit) ==
    LET first == Min2(PosOf(start) + offset, Len(all))
        last == IF limit = NoNum THEN Len(all) ELSE Min2(first + limit, Len(all))
    IN  [items |-> SubSeq(all, first + 1, last), last |-> last,
         exhausted |-> last = Len(all),
         status |-> IF limit # NoNum /\ last - first = limit
                    THEN "MORE_RESULTS" ELSE "NO_MORE_RESULTS"]

\* The records a query returns.
Selected(st, gq) ==
    SelectedFrom(Arranged(st, gq), ClauseNum(gq, "start", CursorOf(0)),
                 ClauseNum(gq, "offset", 0), ClauseNum(gq, "limit", NoNum))

\* The shapes a runQuery answer can take.  A part is left out only when it
\* has nothing to say: the end cursor when the results are exhausted, the
\* status, the info, the entities or the whole answer when no record is
\* returned.
ShapesOf(sel) ==
    {"full"} \cup (IF sel.exhausted THEN {"nocursor"} ELSE {})
             \cup (IF sel.items = <<>>
                   THEN {"nostatus", "noinfo", "noentities", "undefined"} ELSE {})

InfoShapes(st, gq) == ShapesOf(Selected(st, gq))

\* Every combination of absent and present parts of a runQuery answer.
AnyInfoShapes ==
    {"full", "nocursor", "nostatus", "emptyinfo", "noinfo", "noentities",
     "emptyarray", "undefined"}

\* The answer of runQuery that returns the records sel, in the given shape.
RunQueryAnswer(sel, shape) ==
    LET info == CASE shape \in {"noinfo", "emptyarray"} -> NoInfo
                  [] shape = "emptyinfo" ->
                       [present |-> TRUE, moreResults |-> Undefined,
                        endCursor |-> NoCursor]
                  [] shape = "nostatus" ->
                       [present |-> TRUE, moreResults |-> Undefined,
                        endCursor |-> CursorOf(sel.last)]
                  [] shape = "nocursor" ->
                       [present |-> TRUE, moreResults |-> sel.status,
                        endCursor |-> NoCursor]
                  [] OTHER ->
                       [present |-> TRUE, moreResults |-> sel.status,
                        endCursor |-> CursorOf(sel.last)]
    IN  CASE shape = "undefined" -> NoResponse
          [] shape \in {"noentities", "emptyarray"} ->
                 Response(TRUE, FALSE, <<>>, info)
          [] OTHER -> Response(TRUE, TRUE, sel.items, info)

\* datastore.runQuery(gq), resolved.
RemoteRunQuery(st, gq, shape) == RunQueryAnswer(Selected(st, gq), shape)

\* ------------------------------------------------- Queryable, pages
\* JavaScript's truthiness of an optional number, and of an optional cursor
\* string (0 stands for the empty string).
Truthy(n) == n # NoNum /\ n # 0

NoFilters == [present |-> FALSE, list |-> <<>>]
Filters(list) == [present |-> TRUE, list |-> list]
Filter(property, operator, value) ==
    [property |-> property, operator |-> operator, value |-> value]

\* order?: [property, options], groupBy?: a property, projection: the
\* property to select.
NoOrder == [present |-> FALSE, property |-> "", direction |-> ""]
Order(property, direction) ==
    [present |-> TRUE, property |-> property, direction |-> direction]
NoGroupBy == Undefined
NoProjection == Undefined

\* JavaScript's truthiness of an optional string.
TruthyString(str) == str \notin {Undefined, ""}

\* A Queryable with limit, offset, filters and cursor, and one with every field.
FullQueryable(kind, limit, offset, filters, order, cursor, groupBy, projection) ==
    [kind |-> kind, limit |-> limit, offset |-> offset, filters |-> filters,
     order |-> order, cursor |-> cursor, groupBy |-> groupBy,
     projection |-> projection]

Queryable(kind, limit, offset, filters, cursor) ==
    FullQueryable(kind, limit, offset, filters, NoOrder, cursor, NoGroupBy,
                  NoProjection)

NoQueryable == Queryable(Undefined, NoNum, NoNum, NoFilters, NoCursor)

\* Mutant: the filters are applied last to first.
RECURSIVE ApplyFiltersReversed(_, _)
ApplyFiltersReversed(gq, list) ==
    IF list = <<>> THEN gq
    ELSE Apply(ApplyFiltersReversed(gq, Tail(list)),
               Clause("filter", NoNum, Head(list).property,
                      Head(list).operator, Head(list).value))

\* filters.forEach((filter) => gdQuery = gdQuery.filter(property, operator, value))
RECURSIVE ApplyFilters(_, _)
ApplyFilters(gq, list) ==
    IF list = <<>> THEN gq
    ELSE ApplyFilters(
             Apply(gq, Clause("filter", NoNum, Head(list).property,
                              Head(list).operator, Head(list).value)),
             Tail(list))

\* invokeQuery, one optional clause: applied when its field is truthy, the
\* query is left as it is otherwise
When(present, gq, clause) == IF present THEN Apply(gq, clause) ELSE gq

\* invokeQuery, the filters: applied when the list is given and not empty
WhenFilters(gq, filters) ==
    IF filters.present /\ Len(filters.list) > 0
    THEN ApplyFilters(gq, filters.list) ELSE gq

\* invokeQuery, the composition of the native query
BuildQuery(query) ==
    LET g0 == createQuery(query.kind)
        g1 == When(Truthy(query.limit), g0,
                   Clause("limit", query.limit, "", "", ""))
        g2 == When(Truthy(query.offset), g1,
                   Clause("offset", query.offset, "", "", ""))
        g3 == WhenFilters(g2, query.filters)
        g4 == When(query.order.present, g3,
                   Clause("order", NoNum, query.order.property, "",
                          query.order.direction))
        g5 == When(Truthy(query.cursor), g4,
                   Clause("start", query.cursor, "", "", ""))
        g6 == When(TruthyString(query.groupBy), g5,
                   Clause("groupBy", NoNum, query.groupBy, "", ""))
        g7 == When(TruthyString(query.projection), g6,
                   Clause("select", NoNum, query.projection, "", ""))
    IN  g7

\* Mutant: the status is passed on as the store gives it, with no default.
QueryResultNoDefault(resp) ==
    LET queryInfo == IF resp.defined /\ resp.info.present THEN resp.info ELSE NoInfo
    IN  [entities |-> IF resp.defined /\ resp.hasItems THEN resp.items ELSE <<>>,
         resultsStatus |-> queryInfo.moreResults,
         cursor |-> queryInfo.endCursor]

\* invokeQuery, the normalisation of the answer into a QueryResult
QueryResult(resp) ==
    LET queryInfo == IF resp.defined /\ resp.info.present THEN resp.info ELSE NoInfo
    IN  [entities |-> IF resp.defined /\ resp.hasItems THEN resp.items ELSE <<>>,
         resultsStatus |-> IF queryInfo.moreResults \notin {Undefined, ""}
                           THEN queryInfo.moreResults ELSE "NO_RESULTS",
         cursor |-> queryInfo.endCursor]

isEmpty(runQuery) == runQuery.resultsStatus = "NO_RESULTS"

NoQueryResult ==
    [entities |-> <<>>, resultsStatus |-> "NO_RESULTS", cursor |-> NoCursor]

\* The PaginatedQueryResult of invokePaginatedQuery, with what its nextPage
\* closure captures (query, runQuery).
PageOf(query, runQuery) ==
    [kind |-> "page", entities |-> runQuery.entities, cursor |-> runQuery.cursor,
     query |-> query, runQuery |-> runQuery]

\* The page that nextPage returns when there is nothing further to fetch.
TerminalPage ==
    [kind |-> "terminal", entities |-> <<>>, cursor |-> NoCursor,
     query |-> NoQueryable, runQuery |-> NoQueryResult]

NoPage == [TerminalPage EXCEPT !.kind = "none"]

\* A page as its holder sees it: empty entities and an absent cursor.
LooksTerminal(page) ==
    /\ page.kind \in {"page", "terminal"}
    /\ page.entities = <<>>
    /\ page.cursor = NoCursor

\* Mutant: nextPage looks at the cursor alone.
HasNextCursorOnly(page) == Truthy(page.runQuery.cursor)

\* nextPage: if (runQuery.cursor && !runQuery.isEmpty())
HasNext(page) == Truthy(page.runQuery.cursor) /\ ~isEmpty(page.runQuery)

\* Mutant: nextPage runs the page's own query again.
NextQueryableSame(page) == page.query

\* nextPage: {...query, cursor: runQuery.cursor}
NextQueryable(page) == [page.query EXCEPT !.cursor = page.runQuery.cursor]

\* Mutant: the nextPage of the terminal page returns the terminal page.
TerminalNextAgain == "terminal"

\* What the nextPage of the terminal page returns: () => undefined
TerminalNext == "undefined"

\* ------------------------------------------------------------- calls
\* History: no save of the key has returned (since its last delete).
NotSaved == Undefined
NoKey == [kind |-> "User", id |-> 0]
NoEntity == buildEntity(NoKey, Undefined, NoExclude)
NoQuery == createQuery(Undefined)
NoResult == [kind |-> "none", err |-> "", val |-> NoResponse]
Ok(resp) == [kind |-> "ok", err |-> "", val |-> resp]
Failure(err) == [kind |-> "error", err |-> err, val |-> NoResponse]

Event(ev, h, out, err) == [ev |-> ev, handle |-> h, out |-> out, err |-> err]

Idle ==
    [op |-> "none", pc |-> "idle", key |-> NoKey, data |-> Undefined,
     entity |-> NoEntity, q |-> NoQueryable, gq |-> NoQuery, log |-> <<>>,
     raw |-> NoResult, result |-> NoResult, expect |-> NotSaved]

\* The caller of a paginated query: the page it holds, the entities of the
\* pages it has obtained, and (history) the Queryable it started with, the
\* nextPage() calls that have returned, those of them made on the terminal
\* page, the page the last one was called on ("page": a fetched page, "end":
\* a fetched page with empty entities and an absent cursor, "terminal": the
\* terminal page), what it returned, and whether a call of the walk has
\* failed.  prev is the page whose nextPage() gave the page it holds, which it
\* still has a reference to.
NoWalk ==
    [page |-> NoPage, prev |-> NoPage, delivered |-> <<>>, q0 |-> NoQueryable,
     nextCalls |-> 0, terminalCalls |-> 0, from |-> "none", got |-> "none",
     failed |-> FALSE]

Init ==
    /\ \E credentials \in Credentials :
           LET r == renewConnection(0, <<>>, credentials) IN
           /\ datastoreInstance = r.instance
           /\ handles = r.handles
    /\ store = [k \in Keys |-> Undefined]
    /\ calls = [c \in Callers |-> Idle]
    /\ saved = [k \in Keys |-> NotSaved]
    /\ walk = NoWalk

\* ------------------------------------------------- the retry wrapper
\* try { return f(); } catch (e) { ... } in an async function: the catch block
\* runs when f() throws; a promise that f() returns is returned as it is,
\* whether it resolves or rejects.
Retried(out) == out = "throw"

\* Mutant: delete carries the try/catch too.
WrappedAll(op) == TRUE

\* save, get and query carry the try/catch; delete returns the remote call.
Wrapped(op) == op # "delete"

\* Mutant: a failure is replaced by an error of the service's own.
SettleWrapped(out, err, resp) ==
    IF out = "ok" THEN Ok(resp) ELSE Failure("wrapped")

\* return f(): the outcome of the invocation is the outcome of the call.
Settle(out, err, resp) == IF out = "ok" THEN Ok(resp) ELSE Failure(err)

\* getSingle: data?.length > 0 ? data[0] : undefined
getSingleValue(resp) ==
    IF resp.defined /\ Len(resp.items) > 0 THEN resp.items[1] ELSE Undefined

Single(value) ==
    Response(value # Undefined, TRUE,
             IF value = Undefined THEN <<>> ELSE <<value>>, NoInfo)

\* What the caller of the operation receives, given what the wrapped remote
\* call settled to.
Finish(op, raw) ==
    CASE op = "getSingle" /\ raw.kind = "ok" -> Ok(Single(getSingleValue(raw.val)))
      [] op = "invokeQuery" /\ raw.kind = "ok" -> Ok(QueryResult(raw.val))
      [] OTHER -> raw

\* The remote operation behind each operation of the service.
RemoteOf(op) ==
    CASE op \in {"save", "saveFull"} -> "save"
      [] op \in {"get", "getSingle"} -> "get"
      [] op = "delete" -> "delete"
      [] OTHER -> "runQuery"

\* One invocation of the call's closure that resolves: the store after it ...
Effect(rec, st) ==
    CASE RemoteOf(rec.op) = "save" -> RemoteSave(st, rec.entity)
      [] RemoteOf(rec.op) = "delete" -> RemoteDelete(st, rec.key)
      [] OTHER -> st

\* ... and its answer (shape: the form the store gives an empty answer).
Answer(rec, st, shape) ==
    CASE RemoteOf(rec.op) = "get" -> RemoteGet(st, rec.key, shape)
      [] RemoteOf(rec.op) = "runQuery" -> RemoteRunQuery(st, rec.gq, shape)
      [] OTHER -> Response(TRUE, TRUE, <<>>, NoInfo)

\* The forms the store can give the answer of the call's remote operation.
Shapes(rec, st) ==
    CASE rec.op = "invokeQuery" -> AnyInfoShapes
      [] RemoteOf(rec.op) = "get" -> MissShapes
      [] RemoteOf(rec.op) = "runQuery" -> InfoShapes(st, rec.gq)
      [] OTHER -> {"full"}

ErrorsOf(out) == IF out = "ok" THEN {""} ELSE Errors

\* History: the data the caller gave to the last returned save of each key;
\* a delete forgets it.
Remember(rec, sv) ==
    CASE RemoteOf(rec.op) = "save" -> [sv EXCEPT ![rec.key] = rec.data]
      [] RemoteOf(rec.op) = "delete" -> [sv EXCEPT ![rec.key] = NotSaved]
      [] OTHER -> sv

\* History: what a get of the call's key is expected to find.
Expected(rec, sv) == IF rec.key \in Keys THEN sv[rec.key] ELSE NotSaved

\* The first attempt of a call, up to its first await or its return: the
\* call's record, the store and the history after it.
FirstAttempt(rec, out, shape, err) ==
    LET retry == Wrapped(rec.op) /\ Retried(out)
        raw == Settle(out, err, Answer(rec, store, shape))
    IN  [call |-> [rec EXCEPT
                     !.pc = IF retry THEN "sleeping" ELSE "done",
                     !.log = <<Event("attempt", datastoreInstance, out, err)>>,
                     !.raw = IF retry THEN NoResult ELSE raw,
                     !.result = IF retry THEN NoResult ELSE Finish(rec.op, raw),
                     !.expect = Expected(rec, saved)],
         store |-> IF out = "ok" THEN Effect(rec, store) ELSE store,
         saved |-> IF out = "ok" THEN Remember(rec, saved) ELSE saved]

\* The operations whose page the caller walks on with, and those that run
\* invokeQuery: nextPageAgain is nextPage() invoked once more on a page that
\* has already given its next page.
WalkOps == {"invokePaginatedQuery", "nextPage"}
PagedOps == WalkOps \cup {"nextPageAgain", "invokeQuery"}

\* A caller starts a call when its previous one has returned; a call that is
\* going to renew the connection needs room for one more handle.
CanStart(c, op, out) ==
    /\ calls[c].pc = "idle"
    /\ (Wrapped(op) /\ Retried(out))
       => Len(handles) < (IF op \in PagedOps THEN MaxPagedHandles ELSE MaxHandles)

Call(op, key, data, entity, gq) ==
    [Idle EXCEPT !.op = op, !.key = key, !.data = data, !.entity = entity,
                 !.gq = gq]

\* save(entity), the entity built by the caller with createKey and buildEntity
Save(c) ==
    /\ calls[c].pc = "idle"
    /\ \E kind \in Kinds, id \in 1 .. MaxKeyIds, data \in DataVals, out \in Outcomes :
        \E err \in ErrorsOf(out) :
            LET key == createKey(kind, id)
                entity == buildEntity(key, data, NoExclude)
                rec == Call("save", [kind |-> kind, id |-> id], data, entity, NoQuery)
                after == FirstAttempt(rec, out, "full", err)
            IN  /\ CanStart(c, "save", out)
                /\ calls' = [calls EXCEPT ![c] = after.call]
                /\ store' = after.store
                /\ saved' = after.saved
                /\ UNCHANGED <<datastoreInstance, handles, walk>>

\* saveFull({kind, id, data})
SaveFull(c) ==
    /\ calls[c].pc = "idle"
    /\ \E kind \in Kinds, id \in 1 .. MaxKeyIds, data \in DataVals, out \in Outcomes :
        \E err \in ErrorsOf(out) :
            LET key == createKey(kind, id)
                savedEntity == buildEntity(key, data, NoExclude)
                rec == Call("saveFull", [kind |-> kind, id |-> id], data,
                            savedEntity, NoQuery)
                after == FirstAttempt(rec, out, "full", err)
            IN  /\ CanStart(c, "saveFull", out)
                /\ calls' = [calls EXCEPT ![c] = after.call]
                /\ store' = after.store
                /\ saved' = after.saved
                /\ UNCHANGED <<datastoreInstance, handles, walk>>

Get(c) ==
    /\ calls[c].pc = "idle"
    /\ \E key \in CallKeys, out \in Outcomes, shape \in MissShapes :
        \E err \in ErrorsOf(out) :
            LET rec == Call("get", key, Undefined, NoEntity, NoQuery)
                after == FirstAttempt(rec, out, shape, err)
            IN  /\ CanStart(c, "get", out)
                /\ calls' = [calls EXCEPT ![c] = after.call]
                /\ UNCHANGED <<datastoreInstance, handles, store, saved, walk>>

GetSingle(c) ==
    /\ calls[c].pc = "idle"
    /\ \E key \in CallKeys, out \in Outcomes, shape \in MissShapes :
        \E err \in ErrorsOf(out) :
            LET rec == Call("getSingle", key, Undefined, NoEntity, NoQuery)
                after == FirstAttempt(rec, out, shape, err)
            IN  /\ CanStart(c, "getSingle", out)
                /\ calls' = [calls EXCEPT ![c] = after.call]
                /\ UNCHANGED <<datastoreInstance, handles, store, saved, walk>>

Delete(c) ==
    /\ calls[c].pc = "idle"
    /\ \E key \in CallKeys, out \in Outcomes : \E err \in ErrorsOf(out) :
            LET rec == Call("delete", key, Undefined, NoEntity, NoQuery)
                after == FirstAttempt(rec, out, "full", err)
            IN  /\ CanStart(c, "delete", out)
                /\ calls' = [calls EXCEPT ![c] = after.call]
                /\ store' = after.store
                /\ saved' = after.saved
                /\ UNCHANGED <<datastoreInstance, handles, walk>>

\* query(kind, processor): getAll(kind) is query(kind, identity)
Query(c) ==
    /\ calls[c].pc = "idle"
    /\ \E kind \in Kinds, processor \in Processors, out \in Outcomes :
        \E err \in ErrorsOf(out) :
            LET query == IF processor # Undefined
                         THEN RunProcessor(processor, createQuery(kind))
                         ELSE createQuery(kind)
                rec == Call("query", NoKey, Undefined, NoEntity, query)
            IN
            /\ CanStart(c, "query", out)
            /\ \E shape \in Shapes(rec, store) :
                LET after == FirstAttempt(rec, out, shape, err) IN
                /\ calls' = [calls EXCEPT ![c] = after.call]
                /\ UNCHANGED <<datastoreInstance, handles, store, saved, walk>>

\* The walk after a call of invokePaginatedQuery (directly, or from nextPage)
\* has settled to raw: the caller holds the new page, or the error.
Obtained(w, rec, raw) ==
    LET calls1 == IF rec.op = "nextPage" THEN w.nextCalls + 1 ELSE w.nextCalls
        page == PageOf(rec.q, QueryResult(raw.val))
    IN  IF raw.kind = "ok"
        THEN [w EXCEPT !.page = page,
                       !.prev = IF rec.op = "nextPage" THEN w.page ELSE @,
                       !.delivered = @ \o page.entities,
                       !.nextCalls = calls1, !.got = "page"]
        ELSE [w EXCEPT !.nextCalls = calls1, !.got = "error", !.failed = TRUE]

WalkAfter(w, call) ==
    IF call.op \in WalkOps /\ call.pc = "done"
    THEN Obtained(w, call, call.raw) ELSE w

\* Mutant: the catch block swallows an error of renewConnection().
RenewalFailureSwallowed(err) == Ok(NoResponse)

\* renewConnection() throws inside the catch block: nothing catches it there,
\* so the call rejects with that error.
RenewalFailure(err) == Failure(err)

\* Mutant: a second attempt that fails puts the earlier handle back.
KeptInstanceRolledBack(out, before, renewed) ==
    IF out = "ok" THEN renewed ELSE before

\* this.renewConnection(); return save(): whatever the second attempt does,
\* this.datastoreInstance stays the handle the renewal assigned.
KeptInstance(out, before, renewed) == renewed

\* const save = () => this.datastoreInstance.save(entity): the closure reads
\* this.datastoreInstance each time it is invoked.
ClosureHandle(rec, current) == current

\* The catch block: after sleep(5000), renewConnection() and the second
\* invocation, whose outcome is the call's.
Resume(c) ==
    LET rec == calls[c] IN
    /\ rec.pc = "sleeping"
    /\ \/ \* getCredentials() throws: the call rejects with that error
          LET call == [rec EXCEPT
                         !.pc = "done",
                         !.log = rec.log \o
                                 <<Event("sleep", datastoreInstance, "", ""),
                                   Event("renewFailed", datastoreInstance, "",
                                         CredentialError)>>,
                         !.raw = RenewalFailure(CredentialError),
                         !.result = RenewalFailure(CredentialError)]
          IN  /\ calls' = [calls EXCEPT ![c] = call]
              /\ walk' = WalkAfter(walk, call)
              /\ UNCHANGED <<datastoreInstance, handles, store, saved>>
       \/ \E credentials \in Credentials, out \in Outcomes,
             shape \in Shapes(rec, store) : \E err \in ErrorsOf(out) :
            LET r == renewConnection(datastoreInstance, handles, credentials)
                raw == Settle(out, err, Answer(rec, store, shape))
                call == [rec EXCEPT
                           !.pc = "done",
                           !.log = rec.log \o
                                   <<Event("sleep", datastoreInstance, "", ""),
                                     Event("renew", r.instance, "", ""),
                                     Event("attempt",
                                           ClosureHandle(rec, r.instance),
                                           out, err)>>,
                           !.raw = raw,
                           !.result = Finish(rec.op, raw),
                           !.expect = Expected(rec, saved)]
            IN  /\ datastoreInstance' =
                       KeptInstance(out, datastoreInstance, r.instance)
                /\ handles' = r.handles
                /\ calls' = [calls EXCEPT ![c] = call]
                /\ walk' = WalkAfter(walk, call)
                /\ store' = IF out = "ok" THEN Effect(rec, store) ELSE store
                /\ saved' = IF out = "ok" THEN Remember(rec, saved) ELSE saved

\* The caller takes the result; its next call can start.
Return(c) ==
    /\ calls[c].pc = "done"
    /\ calls' = [calls EXCEPT ![c] = Idle]
    /\ UNCHANGED <<datastoreInstance, handles, store, saved, walk>>

\* ------------------------------------------------- paginated queries
PageFilters == {NoFilters, Filters(<<Filter("data", "=", "d1")>>)}

Queryables ==
    {Queryable(kind, limit, offset, filters, NoCursor) :
        kind \in Kinds, limit \in {NoNum} \cup (1 .. MaxLimit),
        offset \in {NoNum} \cup (0 .. MaxOffset), filters \in PageFilters}

\* invokePaginatedQuery(query): invokeQuery composes the native query and runs
\* it through query(), whose processor returns the composed query.
InvokePaginatedQuery(c) ==
    /\ walk.page.kind = "none"
    /\ \E query \in Queryables, out \in Outcomes : \E err \in ErrorsOf(out) :
        LET gdQuery == BuildQuery(query)
            rec == [Call("invokePaginatedQuery", NoKey, Undefined, NoEntity, gdQuery)
                      EXCEPT !.q = query]
        IN
        /\ CanStart(c, "invokePaginatedQuery", out)
        /\ \E shape \in Shapes(rec, store) :
            LET call == FirstAttempt(rec, out, shape, err).call IN
            /\ calls' = [calls EXCEPT ![c] = call]
            /\ walk' = WalkAfter([NoWalk EXCEPT !.q0 = query], call)
            /\ UNCHANGED <<datastoreInstance, handles, store, saved>>

\* page.nextPage() on the page the caller holds, which fetches the next page
NextPageFetch(c) ==
    /\ walk.page.kind = "page"
    /\ HasNext(walk.page)
    /\ walk.nextCalls < MaxNextCalls
    /\ \E out \in Outcomes : \E err \in ErrorsOf(out) :
        LET query == NextQueryable(walk.page)
            gdQuery == BuildQuery(query)
            rec == [Call("nextPage", NoKey, Undefined, NoEntity, gdQuery)
                      EXCEPT !.q = query]
        IN
        /\ CanStart(c, "nextPage", out)
        /\ \E shape \in Shapes(rec, store) :
            LET call == FirstAttempt(rec, out, shape, err).call IN
            /\ calls' = [calls EXCEPT ![c] = call]
            /\ walk' = WalkAfter([walk EXCEPT !.from = "page"], call)
            /\ UNCHANGED <<datastoreInstance, handles, store, saved>>

\* prev.nextPage() once more, on the page that has already given the page
\* the caller holds: the closure runs as it did the first time.
NextPageAgain(c) ==
    /\ walk.prev.kind = "page"
    /\ HasNext(walk.prev)
    /\ \E out \in Outcomes : \E err \in ErrorsOf(out) :
        LET query == NextQueryable(walk.prev)
            gdQuery == BuildQuery(query)
            rec == [Call("nextPageAgain", NoKey, Undefined, NoEntity, gdQuery)
                      EXCEPT !.q = query]
        IN
        /\ CanStart(c, "nextPageAgain", out)
        /\ \E shape \in Shapes(rec, store) :
            LET call == FirstAttempt(rec, out, shape, err).call IN
            /\ calls' = [calls EXCEPT ![c] = call]
            /\ UNCHANGED <<datastoreInstance, handles, store, saved, walk>>

\* page.nextPage() on a page with nothing further: the terminal page
NextPageEnd(c) ==
    /\ calls[c].pc = "idle"
    /\ walk.page.kind = "page"
    /\ ~HasNext(walk.page)
    /\ walk.nextCalls < MaxNextCalls
    /\ calls' = [calls EXCEPT ![c] =
           [Idle EXCEPT !.op = "nextPage", !.pc = "done",
                        !.raw = Ok(NoResponse), !.result = Ok(NoResponse)]]
    /\ walk' = [walk EXCEPT !.page = TerminalPage,
                            !.prev = walk.page,
                            !.delivered = @ \o TerminalPage.entities,
                            !.nextCalls = @ + 1,
                            !.from = IF LooksTerminal(walk.page)
                                     THEN "end" ELSE "page",
                            !.got = "terminal"]
    /\ UNCHANGED <<datastoreInstance, handles, store, saved>>

\* terminalPage.nextPage(): the caller keeps the terminal page
NextPageOfTerminal(c) ==
    /\ calls[c].pc = "idle"
    /\ walk.page.kind = "terminal"
    /\ walk.nextCalls < MaxNextCalls
    /\ calls' = [calls EXCEPT ![c] =
           [Idle EXCEPT !.op = "nextPage", !.pc = "done",
                        !.raw = Ok(NoResponse), !.result = Ok(NoResponse)]]
    /\ walk' = [walk EXCEPT !.nextCalls = @ + 1, !.terminalCalls = @ + 1,
                            !.from = "terminal", !.got = TerminalNext]
    /\ UNCHANGED <<datastoreInstance, handles, store, saved>>

Caller == "c1"

Next ==
    \/ Save(Caller)
    \/ SaveFull(Caller)
    \/ Get(Caller)
    \/ GetSingle(Caller)
    \/ Delete(Caller)
    \/ Query(Caller)
    \/ Resume(Caller)
    \/ Return(Caller)

Spec == Init /\ [][Next]_vars

\* The paginated queries run over a store that holds records 1 .. n of the
\* kind, with alternating data.
Stored(n) ==
    [k \in Keys |-> IF k.id > n THEN Undefined
                    ELSE IF k.id % 2 = 1 THEN "d1" ELSE "d2"]

InitPage ==
    /\ LET r == renewConnection(0, <<>>, [project_id |-> "p1"]) IN
       /\ datastoreInstance = r.instance
       /\ handles = r.handles
    /\ \E n \in 0 .. MaxRecords :
           /\ store = Stored(n)
           /\ saved = Stored(n)
    /\ calls = [c \in Callers |-> Idle]
    /\ walk = NoWalk

NextPaged ==
    \/ InvokePaginatedQuery(Caller)
    \/ NextPageFetch(Caller)
    \/ NextPageEnd(Caller)
    \/ NextPageOfTerminal(Caller)
    \/ Resume(Caller)
    \/ Return(Caller)

SpecPage == InitPage /\ [][NextPaged]_vars

\* ------------------------------------------------------- invokeQuery
QueryFilters ==
    {NoFilters, Filters(<<>>),
     Filters(<<Filter("data", "!=", "d2"), Filter("data", "=", "d1")>>)}

\* The Queryables given to invokeQuery: every field absent or present, with
\* the values 0 and "" among the present ones.
QueryInputs ==
    {FullQueryable(kind, limit, offset, filters, order, cursor, groupBy, projection) :
        kind \in Kinds,
        limit \in {NoNum, 0, MaxLimit},
        offset \in {NoNum, 0, MaxOffset},
        filters \in QueryFilters,
        order \in {NoOrder, Order("data", "desc")},
        cursor \in {NoCursor, 0, CursorOf(1)},
        groupBy \in {NoGroupBy, "", "data"},
        projection \in {NoProjection, "", "data"}}

\* invokeQuery(query): composes the native query, runs it through query() with
\* a processor that returns it, and normalises the answer.
InvokeQuery(c) ==
    /\ calls[c].pc = "idle"
    /\ \E query \in QueryInputs, out \in Outcomes : \E err \in ErrorsOf(out) :
        LET gdQuery == BuildQuery(query)
            rec == [Call("invokeQuery", NoKey, Undefined, NoEntity, gdQuery)
                      EXCEPT !.q = query]
        IN
        /\ CanStart(c, "invokeQuery", out)
        /\ \E shape \in Shapes(rec, store) :
            LET call == FirstAttempt(rec, out, shape, err).call IN
            /\ calls' = [calls EXCEPT ![c] = call]
            /\ UNCHANGED <<datastoreInstance, handles, store, saved, walk>>

\* The calls of invokeQuery fail with one error, and renewals find the same
\* credentials.
NarrowQuery(c) ==
    /\ \A i \in DOMAIN calls[c].log : calls[c].log[i].err # "e2"
    /\ \A i \in DOMAIN handles : handles[i].projectId = "p1"

NextQuery ==
    \/ InvokeQuery(Caller) /\ NarrowQuery(Caller)'
    \/ Resume(Caller) /\ NarrowQuery(Caller)'
    \/ Return(Caller)

\* invokeQuery runs over a store that holds records 1 .. MaxRecords.
InitQuery ==
    /\ LET r == renewConnection(0, <<>>, [project_id |-> "p1"]) IN
       /\ datastoreInstance = r.instance
       /\ handles = r.handles
    /\ store = Stored(MaxRecords)
    /\ saved = Stored(MaxRecords)
    /\ calls = [c \in Callers |-> Idle]
    /\ walk = NoWalk

SpecQuery == InitQuery /\ [][NextQuery]_vars

\* Walks in which the caller also goes back to the page before the one it
\* holds: the queries have a limit and nothing else, and fail with one error.
NarrowWalk(c) ==
    /\ walk.q0.offset = NoNum
    /\ ~walk.q0.filters.present
    /\ \A i \in DOMAIN calls[c].log : calls[c].log[i].err # "e2"

NextAgain ==
    \/ InvokePaginatedQuery(Caller) /\ NarrowWalk(Caller)'
    \/ NextPageFetch(Caller) /\ NarrowWalk(Caller)'
    \/ NextPageAgain(Caller) /\ NarrowWalk(Caller)'
    \/ NextPageEnd(Caller)
    \/ NextPageOfTerminal(Caller)
    \/ Resume(Caller) /\ NarrowWalk(Caller)'
    \/ Return(Caller)

SpecAgain == InitPage /\ [][NextAgain]_vars

\* ------------------------------------- overlapping calls, one connection
\* createKey(kind, id): this.datastoreInstance.key([kind, id]), no remote call
CreateKey(c) ==
    \E kind \in Kinds, id \in 1 .. MaxKeyIds :
        /\ calls[c].pc = "idle"
        /\ calls' = [calls EXCEPT ![c] =
               [Idle EXCEPT !.op = "createKey", !.pc = "done",
                            !.key = createKey(kind, id),
                            !.log = <<Event("key", datastoreInstance, "ok", "")>>,
                            !.raw = Ok(NoResponse), !.result = Ok(NoResponse)]]
        /\ UNCHANGED <<datastoreInstance, handles, store, saved, walk>>

\* buildEntity(key, data): assembles the entity, touches nothing
BuildEntity(c) ==
    \E key \in CallKeys, data \in DataVals :
        /\ calls[c].pc = "idle"
        /\ calls' = [calls EXCEPT ![c] =
               [Idle EXCEPT !.op = "buildEntity", !.pc = "done", !.key = key,
                            !.data = data,
                            !.entity = buildEntity(key, data, NoExclude),
                            !.raw = Ok(NoResponse), !.result = Ok(NoResponse)]]
        /\ UNCHANGED <<datastoreInstance, handles, store, saved, walk>>

\* getDatastoreInstance(): returns this.datastoreInstance
GetDatastoreInstance(c) ==
    /\ calls[c].pc = "idle"
    /\ calls' = [calls EXCEPT ![c] =
           [Idle EXCEPT !.op = "getDatastoreInstance", !.pc = "done",
                        !.log = <<Event("current", datastoreInstance, "ok", "")>>,
                        !.raw = Ok(NoResponse), !.result = Ok(NoResponse)]]
    /\ UNCHANGED <<datastoreInstance, handles, store, saved, walk>>

\* The calls of the overlapping callers are made on one key with one datum,
\* fail with one error, and every renewal finds the same credentials.
Narrow(c) ==
    /\ calls[c].key.id <= 1
    /\ calls[c].data \in {Undefined, "d1"}
    /\ calls[c].gq.clauses = <<>>
    /\ \A i \in DOMAIN calls[c].log : calls[c].log[i].err # "e2"
    /\ \A i \in DOMAIN handles : handles[i].projectId = "p1"

InitConn ==
    /\ LET r == renewConnection(0, <<>>, [project_id |-> "p1"]) IN
       /\ datastoreInstance = r.instance
       /\ handles = r.handles
    /\ store = [k \in Keys |-> Undefined]
    /\ calls = [c \in Callers |-> Idle]
    /\ saved = [k \in Keys |-> NotSaved]
    /\ walk = NoWalk

NextConn ==
    \/ \E c \in Callers : Save(c) /\ Narrow(c)'
    \/ \E c \in Callers : Get(c) /\ Narrow(c)'
    \/ \E c \in Callers : Query(c) /\ Narrow(c)'
    \/ \E c \in Callers : Delete(c) /\ Narrow(c)'
    \/ \E c \in Callers : CreateKey(c) /\ Narrow(c)'
    \/ \E c \in Callers : BuildEntity(c) /\ Narrow(c)'
    \/ \E c \in Callers : GetDatastoreInstance(c)
    \/ \E c \in Callers : Resume(c) /\ Narrow(c)'
    \/ \E c \in Callers : Return(c)

SpecConn == InitConn /\ [][NextConn]_vars

\* ------------------------------------------------------------ claims
Attempts(rec) == SelectSeq(rec.log, LAMBDA e : e.ev = "attempt")
Renewals(rec) == Len(SelectSeq(rec.log, LAMBDA e : e.ev = "renew"))
Sleeps(rec) == Len(SelectSeq(rec.log, LAMBDA e : e.ev = "sleep"))
CredentialsFailed(rec) ==
    Len(SelectSeq(rec.log, LAMBDA e : e.ev = "renewFailed")) > 0
Done(c) == calls[c].pc = "done"

\* C1: for save, get and query, a call whose first attempt fails in any way
\* (a synchronous throw or a rejected promise) makes a second attempt after
\* exactly one renewal, and returns that attempt's success when it succeeds.
C1_RetryOnAnyFailure ==
    \A c \in Callers :
        LET rec == calls[c]
            at == Attempts(rec)
        IN  (/\ rec.op \in {"save", "get", "query"}
             /\ Done(c)
             /\ at[1].out # "ok"
             /\ ~CredentialsFailed(rec))
            => /\ Len(at) = 2
               /\ Renewals(rec) = 1
               /\ at[2].out = "ok" => rec.result.kind = "ok"

\* C2: a call of save, get or query invokes the remote operation at most
\* twice, with at most one delay and one renewal; when both attempts fail the
\* caller receives the second attempt's failure unchanged.
C2_AtMostOneRetry ==
    \A c \in Callers :
        LET rec == calls[c]
            at == Attempts(rec)
        IN  rec.op \in {"save", "get", "query"}
            => /\ Len(at) <= 2
               /\ Sleeps(rec) <= 1
               /\ Renewals(rec) <= 1
               /\ (Len(at) = 2 /\ at[1].out # "ok" /\ at[2].out # "ok")
                  => /\ Done(c)
                     /\ rec.result = Failure(at[2].err)

C2_Witness ==
    \E c \in Callers :
        LET rec == calls[c]
            at == Attempts(rec)
        IN  /\ rec.op = "query"
            /\ Len(at) = 2
            /\ at[1].err = "e1"
            /\ at[2].out = "reject"
            /\ at[2].err = "e2"
            /\ rec.result = Failure("e2")

\* C3: delete invokes the remote delete exactly once on the current handle;
\* a failure of it is the caller's at once, with no delay, renewal or second
\* invocation, and the call leaves the connection handle as it was.
C3_DeleteState ==
    \A c \in Callers :
        LET rec == calls[c] IN
        rec.op = "delete"
        => /\ Done(c)
           /\ Len(rec.log) = 1
           /\ rec.log[1].ev = "attempt"
           /\ rec.log[1].out # "ok" => rec.result = Failure(rec.log[1].err)
           /\ rec.log[1].out = "ok" => rec.result.kind = "ok"

C3_DeleteStep ==
    \A c \in Callers :
        (calls[c].op # "delete" /\ calls'[c].op = "delete")
        => /\ datastoreInstance' = datastoreInstance
           /\ handles' = handles
           /\ calls'[c].log[1].handle = datastoreInstance

C3_DeletePassthrough == []C3_DeleteState /\ [][C3_DeleteStep]_vars

C3_Witness ==
    \E c \in Callers :
        /\ calls[c].op = "delete"
        /\ Done(c)
        /\ calls[c].log[1].out = "throw"
        /\ calls[c].result = Failure("e1")

\* C8: getSingle returns the first element of get's result, or undefined when
\* that result is empty or absent; it invokes the remote get at most twice and
\* throws only when get has failed after the retry.
C8_GetSingle ==
    \A c \in Callers :
        LET rec == calls[c]
            at == Attempts(rec)
        IN  (rec.op = "getSingle" /\ Done(c))
            => /\ Len(at) <= 2
               /\ rec.raw.kind = "ok"
                  => rec.result =
                       Ok(Single(IF rec.raw.val.defined /\ rec.raw.val.items # <<>>
                                 THEN Head(rec.raw.val.items) ELSE Undefined))
               /\ rec.result.kind = "error"
                  => \/ Len(at) = 2 /\ at[2].out # "ok"
                     \/ CredentialsFailed(rec)

\* The records the walk's query matches, and those of them it asks for: the
\* ones after its offset.
WalkMatching ==
    Matching(store, BuildQuery([walk.q0 EXCEPT !.limit = NoNum, !.offset = NoNum,
                                               !.cursor = NoCursor]))
WalkWanted ==
    SubSeq(WalkMatching,
           (IF Truthy(walk.q0.offset) THEN walk.q0.offset ELSE 0) + 1,
           Len(WalkMatching))

Ceil(n, d) == (n + d - 1) \div d

\* C4: over N matching records with page limit L and no failing call, the
\* caller holds a terminal page (empty entities, absent cursor) once
\* ceil(N / L) + 1 calls of nextPage() have returned.
C4_TerminalWithinBound ==
    (/\ walk.q0.limit >= 1
     /\ ~walk.failed
     /\ walk.nextCalls >= Ceil(Len(WalkMatching), walk.q0.limit) + 1)
    => LooksTerminal(walk.page)

\* C5, as claimed: nextPage() of a terminal page (empty entities, absent
\* cursor) returns another terminal page.
C5_TerminalReturnsTerminal ==
    walk.from \in {"end", "terminal"} => walk.got = "terminal"

\* C5, amended: nextPage() of a page with empty entities and an absent cursor
\* never throws, never invokes the remote store and never returns new data,
\* however often it is called: on a fetched page it returns the terminal
\* page, and on the terminal page it returns undefined, not another page.
C5_TerminalState ==
    /\ walk.from = "terminal"
       => /\ walk.got = "undefined"
          /\ walk.page = TerminalPage
    /\ walk.from = "end"
       => /\ walk.got = "terminal"
          /\ walk.page = TerminalPage
    /\ walk.from \in {"end", "terminal"}
       => \A c \in Callers :
              calls[c].op = "nextPage"
              => /\ calls[c].log = <<>>
                 /\ calls[c].result.kind = "ok"

C5_TerminalStep ==
    (LooksTerminal(walk.page) /\ walk'.nextCalls # walk.nextCalls)
    => /\ walk'.page = TerminalPage
       /\ walk'.delivered = walk.delivered
       /\ walk'.got \in {walk.got, "terminal", "undefined"}
       /\ walk'.failed = walk.failed
       /\ store' = store
       /\ handles' = handles

C5_TerminalNextIsAbsent == []C5_TerminalState /\ [][C5_TerminalStep]_vars

C5_Witness ==
    /\ walk.terminalCalls >= 2
    /\ walk.got = "undefined"
    /\ walk.delivered # <<>>
    /\ walk.page = TerminalPage

\* C6: a walk that has reached a page with an absent cursor, with page limit
\* L >= 1 and no failing call, has delivered every record the query asks
\* for exactly once, in order.
C6_EveryRecordOnce ==
    (/\ walk.q0.limit >= 1
     /\ ~walk.failed
     /\ walk.page.kind \in {"page", "terminal"}
     /\ walk.page.cursor = NoCursor)
    => walk.delivered = WalkWanted

\* C7: the query that nextPage() executes starts at the obtained cursor and
\* applies no offset.
C7_CursorReplacesOffset ==
    \A c \in Callers :
        LET rec == calls[c] IN
        (rec.op = "nextPage" /\ rec.log # <<>>)
        => /\ \E i \in DOMAIN rec.gq.clauses :
                  /\ rec.gq.clauses[i].op = "start"
                  /\ rec.gq.clauses[i].num = rec.q.cursor
           /\ \A i \in DOMAIN rec.gq.clauses : rec.gq.clauses[i].op # "offset"

\* C9: a get that returns, on a key whose last save (save or saveFull, retried
\* or not) returned and was not followed by a delete, returns exactly one
\* record, whose data is the data given to that save.
C9_RoundTrip ==
    \A c \in Callers :
        LET rec == calls[c] IN
        (/\ rec.op = "get"
         /\ Done(c)
         /\ rec.result.kind = "ok"
         /\ rec.expect # NotSaved)
        => rec.result.val.items = <<rec.expect>>

C9_Witness ==
    \E c \in Callers :
        LET rec == calls[c] IN
        /\ rec.op = "get"
        /\ Done(c)
        /\ rec.result.kind = "ok"
        /\ rec.key.id = 2
        /\ rec.expect = "d2"
        /\ rec.result.val.items = <<"d2">>
        /\ saved[[kind |-> "User", id |-> 1]] = "d1"

\* C10: the service always holds one live handle, the last one constructed;
\* construction makes exactly one, and every renewal constructs one more,
\* with a reference no earlier handle has, and leaves the earlier ones as
\* they were.
C10_Live ==
    /\ Len(handles) >= 1
    /\ datastoreInstance = Len(handles)

C10_RenewStep ==
    (handles' # handles \/ datastoreInstance' # datastoreInstance)
    => /\ Len(handles') = Len(handles) + 1
       /\ SubSeq(handles', 1, Len(handles)) = handles
       /\ datastoreInstance' \notin DOMAIN handles
       /\ datastoreInstance' = Len(handles')

C10_OneLiveHandle ==
    /\ Len(handles) = 1
    /\ []C10_Live
    /\ [][C10_RenewStep]_vars

C10_Witness ==
    /\ Len(handles) = 2
    /\ datastoreInstance = 2
    /\ handles[1] # handles[2]

\* The kinds of the events of a call, in the order they happened.
EventKinds(rec) == [i \in DOMAIN rec.log |-> rec.log[i].ev]

\* C11: a save, get or query call whose first attempt has failed (by a throw
\* or by a rejected promise) and whose renewal found its credentials goes
\* through first attempt, delay, renewal, second attempt, in this order, and
\* makes the second attempt on the handle of its own renewal, which is not
\* the handle of its first attempt, whatever other calls do in between.
C11_OrderAndOwnHandle ==
    \A c \in Callers :
        LET rec == calls[c] IN
        (/\ rec.op \in {"save", "get", "query"}
         /\ Done(c)
         /\ rec.log[1].out # "ok"
         /\ ~CredentialsFailed(rec))
        => /\ EventKinds(rec) = <<"attempt", "sleep", "renew", "attempt">>
           /\ rec.log[4].handle = rec.log[3].handle
           /\ rec.log[4].handle # rec.log[1].handle

\* The calls of save, get or query that return in this step after a failed
\* first attempt (renewals that found no credentials aside).
ReturningFailedFirst ==
    {c \in Callers :
        /\ calls[c].pc # "done"
        /\ calls'[c].pc = "done"
        /\ calls'[c].op \in {"save", "get", "query"}
        /\ calls'[c].log[1].out # "ok"
        /\ ~CredentialsFailed(calls'[c])}

\* C12: construction makes one renewal, and every step makes as many renewals
\* as save, get or query calls return in it after a failed first attempt;
\* every other step (a first attempt that succeeds, createKey, buildEntity,
\* delete, getDatastoreInstance) leaves the connection handle as it was.
C12_Step ==
    /\ Len(handles') - Len(handles) = Cardinality(ReturningFailedFirst)
    /\ ReturningFailedFirst = {} => datastoreInstance' = datastoreInstance

C12_ReactiveRenewal == Len(handles) = 1 /\ [][C12_Step]_vars

\* C13: a call whose renewal finds no credentials has made its first attempt
\* and its delay and nothing further, and the caller receives the credential
\* error; the step in which getCredentials fails leaves the connection
\* handle, the handles constructed so far and the store as they were.
C13_State ==
    \A c \in Callers :
        LET rec == calls[c] IN
        CredentialsFailed(rec)
        => /\ Done(c)
           /\ rec.op \in {"save", "get", "query"}
           /\ EventKinds(rec) = <<"attempt", "sleep", "renewFailed">>
           /\ rec.log[1].out = "throw"
           /\ rec.result = Failure(CredentialError)

C13_Step ==
    \A c \in Callers :
        (~CredentialsFailed(calls[c]) /\ CredentialsFailed(calls'[c]))
        => /\ calls[c].pc = "sleeping"
           /\ datastoreInstance' = datastoreInstance
           /\ handles' = handles
           /\ store' = store

C13_CredentialFailure == []C13_State /\ [][C13_Step]_vars

C13_Witness ==
    \E c \in Callers :
        /\ calls[c].op = "get"
        /\ CredentialsFailed(calls[c])
        /\ calls[c].result = Failure(CredentialError)
        /\ calls[c].log[1].handle = 1
        /\ datastoreInstance = 2

\* C14: a call of nextPage() on a fetched page invokes the remote store if and
\* only if the page's query returned a cursor and a status other than
\* 'NO_RESULTS'; it then runs invokePaginatedQuery on the page's queryable
\* with the cursor replaced by the one obtained; otherwise it invokes nothing
\* and returns the terminal page: empty entities, an absent cursor and a
\* nextPage() that returns undefined.
C14_Step ==
    \A c \in Callers :
        (/\ walk.page.kind = "page"
         /\ calls[c].pc = "idle"
         /\ calls'[c].op = "nextPage")
        => IF /\ walk.page.cursor # NoCursor
              /\ walk.page.runQuery.resultsStatus # "NO_RESULTS"
           THEN /\ calls'[c].log # <<>>
                /\ calls'[c].log[1].ev = "attempt"
                /\ calls'[c].q = [kind |-> walk.page.query.kind,
                                  limit |-> walk.page.query.limit,
                                  offset |-> walk.page.query.offset,
                                  filters |-> walk.page.query.filters,
                                  order |-> walk.page.query.order,
                                  cursor |-> walk.page.cursor,
                                  groupBy |-> walk.page.query.groupBy,
                                  projection |-> walk.page.query.projection]
                /\ calls'[c].gq = BuildQuery(calls'[c].q)
           ELSE /\ calls'[c].log = <<>>
                /\ calls'[c].pc = "done"
                /\ calls'[c].result.kind = "ok"
                /\ walk'.page.kind = "terminal"
                /\ walk'.page.entities = <<>>
                /\ walk'.page.cursor = NoCursor
                /\ store' = store
                /\ handles' = handles

C14_TerminalStep ==
    \A c \in Callers :
        (/\ walk.page.kind = "terminal"
         /\ calls[c].pc = "idle"
         /\ calls'[c].op = "nextPage")
        => /\ calls'[c].log = <<>>
           /\ walk'.got = "undefined"

C14_FetchIffCursorAndNotEmpty == [][C14_Step /\ C14_TerminalStep]_vars

C14_Witness ==
    /\ walk.q0.limit = 1
    /\ walk.delivered = <<1, 2>>
    /\ walk.nextCalls = 2
    /\ walk.from = "page"
    /\ walk.got = "terminal"
    /\ walk.page = TerminalPage
    /\ \E c \in Callers : calls[c].op = "nextPage" /\ calls[c].log = <<>>

C15_State ==
    /\ \A c \in Callers :
           LET rec == calls[c] IN
           (rec.op \in PagedOps /\ rec.log # <<>>)
           => /\ Len(Attempts(rec)) - Renewals(rec) = 1
              /\ rec.gq = BuildQuery(rec.q)
    /\ (walk.page.kind = "page" /\ walk.nextCalls = 0 /\ walk.terminalCalls = 0)
       => /\ walk.delivered = walk.page.entities
          /\ Truthy(walk.q0.limit) => Len(walk.delivered) <= walk.q0.limit

C15_Step ==
    /\ walk'.page # walk.page
       => \E c \in Callers :
              /\ calls'[c].op \in WalkOps
              /\ calls[c].pc # "done"
              /\ calls'[c].pc = "done"
    /\ \A c \in Callers :
           (calls[c].pc = "idle" /\ calls'[c].op = "nextPageAgain")
           => /\ calls'[c].log[1].ev = "attempt"
              /\ calls'[c].q.cursor = walk.prev.cursor
              /\ calls'[c].q = walk.page.query
              /\ calls'[c].gq = BuildQuery(walk.page.query)
              /\ walk' = walk

Rank(op) ==
    CASE op = "limit" -> 1
      [] op = "offset" -> 2
      [] op = "filter" -> 3
      [] op = "order" -> 4
      [] op = "start" -> 5
      [] op = "groupBy" -> 6
      [] OTHER -> 7

ClauseKinds(gq) == [i \in DOMAIN gq.clauses |-> gq.clauses[i].op]
FilterClauses(gq) == SelectSeq(gq.clauses, LAMBDA cl : cl.op = "filter")

\* C16: in the native query invokeQuery composes, no clause of a later field
\* comes before a clause of an earlier field (limit, offset, filters, order,
\* start, groupBy, select), each field has at most one clause except the
\* filters, and the filter clauses are the triples of the filters sequence,
\* one clause each, in the sequence's order.
C16_FixedClauseOrder ==
    \A c \in Callers :
        LET rec == calls[c]
            cls == rec.gq.clauses
            fcs == FilterClauses(rec.gq)
            list == IF rec.q.filters.present THEN rec.q.filters.list ELSE <<>>
        IN  rec.op = "invokeQuery"
            => /\ rec.gq.kind = rec.q.kind
               /\ \A i, j \in DOMAIN cls :
                      i < j => /\ Rank(cls[i].op) <= Rank(cls[j].op)
                               /\ Rank(cls[i].op) = Rank(cls[j].op)
                                  => cls[i].op = "filter"
               /\ Len(fcs) = Len(list)
               /\ \A i \in DOMAIN fcs :
                      /\ fcs[i].prop = list[i].property
                      /\ fcs[i].oper = list[i].operator
                      /\ fcs[i].val = list[i].value

C16_Witness ==
    \E c \in Callers :
        /\ calls[c].op = "invokeQuery"
        /\ Done(c)
        /\ ClauseKinds(calls[c].gq) =
               <<"limit", "offset", "filter", "filter", "order", "start",
                 "groupBy", "select">>
        /\ calls[c].gq.clauses[3].oper = "!="
        /\ calls[c].gq.clauses[4].oper = "="

\* C17: the native query invokeQuery composes has a clause for a field exactly
\* when the field is present on the Queryable, whatever its value: a limit of
\* 0, an offset of 0 and an empty cursor string are present, and so is an
\* empty filters sequence, which has no triple to apply.
C17_ClauseIffPresent ==
    \A c \in Callers :
        LET rec == calls[c]
            gq == rec.gq
            q == rec.q
        IN  rec.op = "invokeQuery"
            => /\ HasClause(gq, "limit") <=> q.limit # NoNum
               /\ HasClause(gq, "offset") <=> q.offset # NoNum
               /\ HasClause(gq, "filter")
                      <=> (q.filters.present /\ q.filters.list # <<>>)
               /\ HasClause(gq, "order") <=> q.order.present
               /\ HasClause(gq, "start") <=> q.cursor # NoCursor
               /\ HasClause(gq, "groupBy") <=> q.groupBy # Undefined
               /\ HasClause(gq, "select") <=> q.projection # Undefined

\* C18: the QueryResult of invokeQuery has the store's entities, or none when
\* the answer or its entities are absent; the store's status, or 'NO_RESULTS'
\* when the answer, its info or the status is absent; the store's end cursor,
\* or undefined when the answer, its info or the cursor is absent; and
\* isEmpty() holds exactly when the status is 'NO_RESULTS'.
C18_Normalised ==
    \A c \in Callers :
        LET rec == calls[c]
            raw == rec.raw.val
            res == rec.result.val
            hasInfo == raw.defined /\ raw.info.present
        IN  (rec.op = "invokeQuery" /\ Done(c) /\ rec.raw.kind = "ok")
            => /\ rec.result.kind = "ok"
               /\ res.entities =
                      IF raw.defined /\ raw.hasItems THEN raw.items ELSE <<>>
               /\ res.resultsStatus =
                      IF hasInfo /\ raw.info.moreResults # Undefined
                      THEN raw.info.moreResults ELSE "NO_RESULTS"
               /\ res.cursor = IF hasInfo THEN raw.info.endCursor ELSE NoCursor
               /\ isEmpty(res) <=> res.resultsStatus = "NO_RESULTS"
               /\ isEmpty(res) <=> ~(hasInfo /\ raw.info.moreResults # Undefined)

C18_Witness ==
    \E c \in Callers :
        LET rec == calls[c] IN
        /\ rec.op = "invokeQuery"
        /\ Done(c)
        /\ rec.raw.kind = "ok"
        /\ rec.raw.val.items # <<>>
        /\ rec.raw.val.info.present
        /\ rec.raw.val.info.moreResults = Undefined
        /\ rec.raw.val.info.endCursor # NoCursor
        /\ rec.result.val.entities = rec.raw.val.items
        /\ rec.result.val.resultsStatus = "NO_RESULTS"
        /\ rec.result.val.cursor = rec.raw.val.info.endCursor
        /\ isEmpty(rec.result.val)

\* C19: when the calls of two callers are in progress together and the first
\* attempt of both has failed (renewals that found no credentials aside),
\* each call has made its own delay, its own renewal, with a handle of its
\* own, and one second attempt: two renewals in all.
C19_OwnRenewalEach ==
    \A c, d \in Callers :
        LET rc == calls[c]
            rd == calls[d]
        IN  (/\ c # d
             /\ rc.op \in {"save", "get", "query"} /\ Done(c)
             /\ rd.op \in {"save", "get", "query"} /\ Done(d)
             /\ rc.log[1].out # "ok" /\ ~CredentialsFailed(rc)
             /\ rd.log[1].out # "ok" /\ ~CredentialsFailed(rd))
            => /\ Sleeps(rc) = 1 /\ Sleeps(rd) = 1
               /\ Renewals(rc) = 1 /\ Renewals(rd) = 1
               /\ Len(Attempts(rc)) = 2 /\ Len(Attempts(rd)) = 2
               /\ rc.log[3].handle # rd.log[3].handle
               /\ Len(handles) >= 3

\* C20: a call that returns after two failed attempts leaves as the current
\* handle the one its own renewal constructed, on which its second attempt
\* ran; the current handle changes only to a newly constructed handle, never
\* back to an earlier one; and every operation that starts (delete, createKey
\* and getDatastoreInstance included) runs against the handle current then.
C20_Step ==
    /\ \A c \in Callers :
           (/\ calls[c].pc = "sleeping"
            /\ calls'[c].pc = "done"
            /\ Len(Attempts(calls'[c])) = 2
            /\ calls'[c].log[4].out # "ok")
           => /\ calls'[c].log[3].ev = "renew"
              /\ calls'[c].log[3].handle \notin DOMAIN handles
              /\ calls'[c].log[4].handle = calls'[c].log[3].handle
              /\ datastoreInstance' = calls'[c].log[3].handle
    /\ datastoreInstance' # datastoreInstance
       => /\ datastoreInstance' \notin DOMAIN handles
          /\ datastoreInstance' \in DOMAIN handles'
    /\ \A c \in Callers :
           (calls[c].pc = "idle" /\ calls'[c].log # <<>>)
           => calls'[c].log[1].handle = datastoreInstance

C20_RenewalKept == [][C20_Step]_vars

C20_Witness ==
    \E c, d \in Callers :
        /\ calls[c].op = "save"
        /\ Done(c)
        /\ Len(Attempts(calls[c])) = 2
        /\ calls[c].log[4].out = "reject"
        /\ calls[c].log[3].handle = 2
        /\ calls[d].op = "delete"
        /\ calls[d].log[1].handle = 2
        /\ datastoreInstance = 2

====
